---- MODULE Spec2Model ----
(***************************************************************************)
(* Model of the ZCS lawn mower integration: the polling coordinator        *)
(* (custom_components/zcsmower/coordinator.py), its refresh cycle and its  *)
(* command operations, over an API client that executes one request at a   *)
(* time per awaiting task and keeps the last decoded payload.              *)
(***************************************************************************)
EXTENDS Integers, Sequences, FiniteSets, TLC

(***************************************************************************)
(* Bounds of the model.                                                    *)
(***************************************************************************)
MaxRefresh == 2     \* refresh cycles run in one behaviour
MaxResult == 1      \* entries of the "result" list of a thing.list payload
MaxProfile == 2     \* profile indices offered to set_profile
MaxArea == 3        \* area indices offered to work_until

(***************************************************************************)
(* Values.                                                                 *)
(***************************************************************************)
\* Python's None for the nullable fields of a row: a nullable value is the
\* empty set or a singleton.
None == {}
Some(v) == {v}

\* The registrations a coordinator can be constructed with (imei -> name, in
\* insertion order), and an identifier that is never registered.
Registrations == {<<"A">>, <<"A", "B">>}
Unregistered == "X"
Imeis == {"A", "B", Unregistered}
Name(imei) == "mower " \o imei

Range(s) == {s[i] : i \in 1..Len(s)}

\* const.API_ACK_TIMEOUT, kept symbolic: the value is set outside coordinator.py
API_ACK_TIMEOUT == "API_ACK_TIMEOUT"

\* api.ZcsMowerApiAuthenticationError and every other api.ZcsMowerApiError
ZcsMowerApiAuthenticationError == "ZcsMowerApiAuthenticationError"
ZcsMowerApiError == "ZcsMowerApiError"
ClientErrors == {ZcsMowerApiAuthenticationError, ZcsMowerApiError}
\* what client.execute does: it returns a success flag or raises a client error
ExecuteOutcomes == {"True", "False"} \cup ClientErrors

\* a request as logged: in flight once issued, then answered with the outcome
InFlight(req) == [command |-> req.command, params |-> req.params,
                  status |-> "inflight"]
Answered(req, outcome) == [req EXCEPT !.status = outcome]

(***************************************************************************)
(* Command operations: the requests they build.                            *)
(***************************************************************************)
Tasks == {"t1", "t2"}

Profiles == 1..MaxProfile
Areas == 1..MaxArea
Hours == {10, 22}
Minutes == {0, 30}
Weekdays == {3}

\* The invocations of the five command operations, with their arguments.
Calls ==
    [op : {"set_profile"}, imei : Imeis \ {Unregistered}, profile : Profiles]
    \cup [op : {"work_until"}, imei : Imeis \ {Unregistered}, area : Areas,
          hours : Hours, minutes : Minutes]
    \cup [op : {"border_cut"}, imei : Imeis \ {Unregistered}]
    \cup [op : {"charge_until"}, imei : Imeis \ {Unregistered}, hours : Hours,
          minutes : Minutes, weekday : Weekdays]
    \cup [op : {"trace_position"}, imei : Imeis \ {Unregistered}]

NoCall == [op |-> "none"]

\* async_wake_up: the sms.send request
WakeUpRequest(imei) ==
    [command |-> "sms.send",
     params |-> [coding |-> "SEVEN_BIT", imei |-> imei, message |-> "UP"]]

\* the "params" object of a method.exec request, per command operation
SetProfileParams_Untranslated(profile) == [profile |-> profile]
SetProfileParams(profile) == [profile |-> profile - 1]
WorkUntilParams(area, hours, minutes) ==
    [area |-> area - 1, hh |-> hours, mm |-> minutes]
ChargeUntilParams(hours, minutes, weekday) ==
    [hh |-> hours, mm |-> minutes, weekday |-> weekday]

\* the envelope every command operation puts around its method
MethodExec(method, imei) ==
    [method |-> method, imei |-> imei,
     ackTimeout |-> API_ACK_TIMEOUT, singleton |-> TRUE]
MethodExecWith_NotSingleton(method, imei, params) ==
    [method |-> method, imei |-> imei, params |-> params,
     ackTimeout |-> API_ACK_TIMEOUT, singleton |-> FALSE]
MethodExecWith(method, imei, params) ==
    [method |-> method, imei |-> imei, params |-> params,
     ackTimeout |-> API_ACK_TIMEOUT, singleton |-> TRUE]

\* the method.exec request of an invocation
MethodRequest(c) ==
    [command |-> "method.exec",
     params |->
        CASE c.op = "set_profile" ->
                MethodExecWith("set_profile", c.imei, SetProfileParams(c.profile))
          [] c.op = "work_until" ->
                MethodExecWith("work_until", c.imei,
                               WorkUntilParams(c.area, c.hours, c.minutes))
          [] c.op = "border_cut" -> MethodExec("border_cut", c.imei)
          [] c.op = "charge_until" ->
                MethodExecWith("charge_until", c.imei,
                               ChargeUntilParams(c.hours, c.minutes, c.weekday))
          [] c.op = "trace_position" -> MethodExec("trace_position", c.imei)]

\* async_wake_up's try/except: what it returns for an outcome of execute
\* ("raised" when an exception leaves it)
WakeUpReturn_Uncaught(outcome) ==
    IF outcome \in ClientErrors THEN "raised" ELSE outcome
WakeUpReturn(outcome) ==
    IF outcome \in ClientErrors THEN "False" ELSE outcome

\* call.data.get(field) of a field the service call does not carry: None
NoneArg == -1

\* the exception raised while the method.exec params are built: None - 1 is a
\* TypeError
ParamsError(c) ==
    IF \/ c.op = "set_profile" /\ c.profile = NoneArg
       \/ c.op = "work_until" /\ c.area = NoneArg
    THEN "TypeError"
    ELSE "none"

\* what "except Exception" catches here
Exceptions == ClientErrors \cup {"TypeError"}

\* a command operation's try/except: what it yields for an outcome of the
\* method.exec execute ("True", "False", or "raised" when an exception leaves it)
CommandReturn_Uncaught(outcome) ==
    IF outcome \in Exceptions THEN "raised" ELSE outcome
CommandReturn(outcome) ==
    IF outcome \in Exceptions THEN "False" ELSE outcome

\* the payload the client decodes for an answered sms.send or method.exec
CommandPayload == [success |-> TRUE]

(***************************************************************************)
(* Refresh: the thing.list request, its payloads and the merge.            *)
(***************************************************************************)
\* the field selection of the batched fetch
ShowFields ==
    <<"id", "key", "name", "connected", "lastSeen", "lastCommunication", "loc",
      "properties", "alarms", "attrs", "createdOn", "storage",
      "varBillingPlanCode">>

\* the requests one refresh issues for the identifiers it collected
ThingListRequests_PerDevice(mower_imeis_) ==
    [i \in 1..Len(mower_imeis_) |->
        [command |-> "thing.list",
         params |-> [show |-> ShowFields, hideFields |-> TRUE,
                     keys |-> <<mower_imeis_[i]>>]]]
ThingListRequests(mower_imeis_) ==
    << [command |-> "thing.list",
        params |-> [show |-> ShowFields, hideFields |-> TRUE,
                    keys |-> mower_imeis_]] >>

\* the row a refresh starts from for one registration
Placeholder(imei) ==
    [name |-> Name(imei), imei |-> imei, serial |-> None, sw_version |-> None,
     state |-> 0, location |-> None, connected |-> FALSE,
     last_communication |-> None, last_seen |-> None]

\* mower_data as built by the loop over self.mowers
InitialRows(mowers_) == [i \in Range(mowers_) |-> Placeholder(i)]
\* mower_imeis as built by the same loop
CollectImeis(mowers_) == mowers_

Has(obj, k) == k \in DOMAIN obj
EmptyObject == <<>>

\* date-time strings of a payload; the first two are in API_DATETIME_FORMAT
DateSeen == "2023-06-01T10:00:00.000Z"
DateComm == "2023-06-01T09:55:00.000Z"
DateBad == "yesterday"
\* datetime.strptime(s, API_DATETIME_FORMAT): the parsed value, or "ValueError"
Strptime(s) ==
    CASE s = DateSeen -> <<2023, 6, 1, 10, 0, 0>>
      [] s = DateComm -> <<2023, 6, 1, 9, 55, 0>>
      [] OTHER -> "ValueError"
StrptimeRaises(s) == s \notin {DateSeen, DateComm}

\* what a thing.list entry can hold besides its key
BodyStateOnly ==
    [connected |-> TRUE, alarms |-> [robot_state |-> [state |-> 3]]]
BodyFull ==
    [connected |-> FALSE,
     alarms |-> [robot_state |-> [state |-> 5, lat |-> 45, lng |-> 9]],
     attrs |-> [robot_serial |-> [value |-> "AM01A"],
                program_version |-> [value |-> "r1"]],
     lastCommunication |-> DateComm, lastSeen |-> DateSeen]
BodyLatOnly ==
    [alarms |-> [robot_state |-> [state |-> 1, lat |-> 45]],
     attrs |-> EmptyObject]
BodyNoAlarms ==
    [connected |-> TRUE, attrs |-> [robot_serial |-> [value |-> "KB02B"]]]
BodyNoRobotState ==
    [alarms |-> EmptyObject, lastSeen |-> DateSeen]
BodyNoState ==
    [alarms |-> [robot_state |-> [lat |-> 45, lng |-> 9]]]
BodyNoValue ==
    [connected |-> TRUE, attrs |-> [robot_serial |-> EmptyObject]]
BodyBadDate ==
    [connected |-> TRUE, lastSeen |-> DateBad]

WellFormedBodies ==
    {EmptyObject, BodyStateOnly, BodyFull, BodyLatOnly, BodyNoAlarms,
     BodyNoRobotState}
MalformedBodies == {BodyNoState, BodyNoValue, BodyBadDate}

Keyed(k, body) == [key |-> k] @@ body

\* the entries a "result" list is drawn from
Entries ==
    {Keyed(k, b) : k \in {"A", "B"}, b \in WellFormedBodies}
    \cup {Keyed("A", b) : b \in MalformedBodies}
    \cup {Keyed(Unregistered, BodyFull), BodyFull}

ResultLists == UNION {[1..n -> Entries] : n \in 0..MaxResult}

\* the payloads the client can decode for a thing.list request
Payloads == {[result |-> l] : l \in ResultLists} \cup {[success |-> TRUE]}

\* the filter of the generator over result_list
Selected(mower, md) == Has(mower, "key") /\ mower["key"] \in DOMAIN md

HasRobotState(mower) ==
    Has(mower, "alarms") /\ Has(mower["alarms"], "robot_state")

\* the exception the loop body raises for an entry, "none" when it raises none
EntryError(mower) ==
    IF HasRobotState(mower) /\ ~Has(mower["alarms"]["robot_state"], "state")
    THEN "KeyError"
    ELSE IF /\ Has(mower, "attrs")
            /\ \/ /\ Has(mower["attrs"], "robot_serial")
                  /\ ~Has(mower["attrs"]["robot_serial"], "value")
               \/ /\ Has(mower["attrs"], "program_version")
                  /\ ~Has(mower["attrs"]["program_version"], "value")
    THEN "KeyError"
    ELSE IF /\ Has(mower, "lastCommunication")
            /\ StrptimeRaises(mower["lastCommunication"])
    THEN "ValueError"
    ELSE IF Has(mower, "lastSeen") /\ StrptimeRaises(mower["lastSeen"])
    THEN "ValueError"
    ELSE "none"

\* the assignments of the loop body, field by field
MergeState(row, mower) ==
    IF HasRobotState(mower)
    THEN [row EXCEPT !.state = mower["alarms"]["robot_state"]["state"]]
    ELSE row

\* a merge that takes whichever coordinate is there
MergeLocation_Partial(row, mower) ==
    IF /\ HasRobotState(mower)
       /\ \/ Has(mower["alarms"]["robot_state"], "lat")
          \/ Has(mower["alarms"]["robot_state"], "lng")
    THEN [row EXCEPT !.location =
            Some([k \in {"latitude", "longitude"} \cap
                        {IF f = "lat" THEN "latitude" ELSE "longitude" :
                            f \in DOMAIN mower["alarms"]["robot_state"]
                                    \cap {"lat", "lng"}} |->
                    IF k = "latitude"
                    THEN mower["alarms"]["robot_state"]["lat"]
                    ELSE mower["alarms"]["robot_state"]["lng"]])]
    ELSE row
MergeLocation(row, mower) ==
    IF /\ HasRobotState(mower)
       /\ Has(mower["alarms"]["robot_state"], "lat")
       /\ Has(mower["alarms"]["robot_state"], "lng")
    THEN [row EXCEPT !.location =
            Some([latitude |-> mower["alarms"]["robot_state"]["lat"],
                  longitude |-> mower["alarms"]["robot_state"]["lng"]])]
    ELSE row

MergeAttrs(row, mower) ==
    IF Has(mower, "attrs")
    THEN LET r1 == IF Has(mower["attrs"], "robot_serial")
                   THEN [row EXCEPT !.serial =
                            Some(mower["attrs"]["robot_serial"]["value"])]
                   ELSE row
         IN  IF Has(mower["attrs"], "program_version")
             THEN [r1 EXCEPT !.sw_version =
                      Some(mower["attrs"]["program_version"]["value"])]
             ELSE r1
    ELSE row

MergeConnected_Ignored(row, mower) == row
MergeConnected(row, mower) ==
    IF Has(mower, "connected")
    THEN [row EXCEPT !.connected = mower["connected"]]
    ELSE row

MergeTimes(row, mower) ==
    LET r1 == IF Has(mower, "lastCommunication")
              THEN [row EXCEPT !.last_communication =
                       Some(Strptime(mower["lastCommunication"]))]
              ELSE row
    IN  IF Has(mower, "lastSeen")
        THEN [r1 EXCEPT !.last_seen = Some(Strptime(mower["lastSeen"]))]
        ELSE r1

MergeEntry(row, mower) ==
    MergeTimes(MergeConnected(MergeAttrs(MergeLocation(MergeState(row, mower),
                                                       mower), mower), mower),
               mower)

\* the loop over result_list: the rows it leaves and the exception that ended it
RECURSIVE MergeList_Unfiltered(_, _)
MergeList_Unfiltered(md, result_list) ==
    IF result_list = <<>>
    THEN [exc |-> "none", rows |-> md]
    ELSE LET mower == Head(result_list) IN
         IF ~Has(mower, "key")
         THEN MergeList_Unfiltered(md, Tail(result_list))
         ELSE IF EntryError(mower) # "none"
         THEN [exc |-> EntryError(mower), rows |-> md]
         ELSE LET k == mower["key"]
                  row == IF k \in DOMAIN md THEN md[k] ELSE Placeholder(k)
              IN  MergeList_Unfiltered((k :> MergeEntry(row, mower)) @@ md,
                                       Tail(result_list))

RECURSIVE MergeList(_, _)
MergeList(md, result_list) ==
    IF result_list = <<>>
    THEN [exc |-> "none", rows |-> md]
    ELSE LET mower == Head(result_list) IN
         IF ~Selected(mower, md)
         THEN MergeList(md, Tail(result_list))
         ELSE IF EntryError(mower) # "none"
         THEN [exc |-> EntryError(mower), rows |-> md]
         ELSE MergeList([md EXCEPT ![mower["key"]] = MergeEntry(@, mower)],
                        Tail(result_list))

\* everything after get_response, up to "return mower_data"
MergeResponse(md, response) ==
    IF Has(response, "result")
    THEN MergeList(md, response["result"])
    ELSE [exc |-> "none", rows |-> md]

\* coordinator.data while _async_update_data builds and fills its own mapping:
\* mower_data is a local, the coordinator's data is not written
DataWhileFetching_InPlace(current, rows) == rows
DataWhileFetching(current, rows) == current

\* coordinator.data after _async_update_data has returned its mapping or raised
DataAfterMerge_Always(current, merged) == merged.rows
DataAfterMerge(current, merged) ==
    IF merged.exc = "none" THEN merged.rows ELSE current

\* the except clauses of _async_update_data: what it raises for an exception
\* raised inside its try block
RefreshRaises_AuthAsUpdateFailed(exc) ==
    CASE exc \in ClientErrors -> "UpdateFailed"
      [] OTHER -> exc
RefreshRaises(exc) ==
    CASE exc = ZcsMowerApiAuthenticationError -> "ConfigEntryAuthFailed"
      [] exc = ZcsMowerApiError -> "UpdateFailed"
      [] OTHER -> exc

(***************************************************************************)
(* The service router: async_setup's handlers.                             *)
(***************************************************************************)
DOMAIN_ == "zcsmower"

\* the services async_setup registers
Services ==
    {"set_profile", "work_now", "work_for", "work_until", "border_cut",
     "charge_now", "charge_until", "trace_position", "keep_out"}

\* the command operations ZcsMowerDataUpdateCoordinator defines
CoordinatorOps ==
    {"set_profile", "work_until", "border_cut", "charge_until",
     "trace_position"}

\* the device registry: a mower of each registration of the loaded entry, a
\* mower of an entry that has no coordinator, a device of another
\* integration, a device registered by its connections only; any other id is
\* unknown to the registry
DeviceRegistry ==
    [d_A |-> [identifiers |-> {<<DOMAIN_, "A">>}, config_entries |-> {"e1"}],
     d_B |-> [identifiers |-> {<<DOMAIN_, "B">>}, config_entries |-> {"e1"}],
     d_C |-> [identifiers |-> {<<DOMAIN_, "C">>}, config_entries |-> {"e2"}],
     d_other |-> [identifiers |-> {<<"other", "Z">>},
                  config_entries |-> {"e9"}],
     d_conn |-> [identifiers |-> {}, config_entries |-> {"e9"}]]
DeviceIds == DOMAIN DeviceRegistry \cup {"d_unknown"}

\* hass.data[DOMAIN]: the config entries that have a coordinator
LoadedEntries == {"e1"}

\* the device_id sets of a service call
TargetSets == {ids \in SUBSET DeviceIds : Cardinality(ids) <= 2}

\* the fields a service call carries besides device_id
ServiceData(service) ==
    CASE service = "set_profile" ->
            {[profile |-> 1], [profile |-> 2], EmptyObject}
      [] service = "work_until" ->
            {[area |-> 3, hours |-> 10, minutes |-> 30],
             [area |-> 1, hours |-> 22, minutes |-> 0],
             [hours |-> 10, minutes |-> 30]}
      [] service = "charge_until" ->
            {[hours |-> 22, minutes |-> 0, weekday |-> 3]}
      [] OTHER -> {EmptyObject}

NoService == [service |-> "none"]

\* call.data.get(field)
Get(sdata, field) == IF field \in DOMAIN sdata THEN sdata[field] ELSE NoneArg

\* async_handle_service's loop body for one device id: "skip" (continue),
\* "IndexError" (list(...)[0] of an empty set) or the imei it targets
ResolveDevice(device_id) ==
    IF device_id \notin DOMAIN DeviceRegistry THEN {"skip"}
    ELSE LET device == DeviceRegistry[device_id] IN
         IF device.identifiers = {} THEN {"IndexError"}
         ELSE UNION {
                IF ident[1] # DOMAIN_ THEN {"skip"}
                ELSE IF device.config_entries = {} THEN {"IndexError"}
                ELSE {IF e \in LoadedEntries THEN ident[2] ELSE "skip" :
                        e \in device.config_entries}
                : ident \in device.identifiers}

\* async_handle_service: the exception that leaves it and the imeis of the
\* targets dict it returns (every device here has at most one identifier and
\* one config entry, so list(...)[0] has one value)
ResolveTargets(device_ids) ==
    LET outcomes == UNION {ResolveDevice(d) : d \in device_ids} IN
    IF "IndexError" \in outcomes
    THEN [raised |-> "IndexError", targets |-> {}]
    ELSE [raised |-> "none", targets |-> outcomes \ {"skip"}]

\* the coroutine a handler builds for one target: its arguments bound to the
\* operation's parameters by position
CoroutineFor(service, imei, sdata) ==
    CASE service = "set_profile" ->
            [op |-> "set_profile", imei |-> imei,
             profile |-> Get(sdata, "profile")]
      [] service = "work_until" ->
            [op |-> "work_until", imei |-> imei,
             area |-> Get(sdata, "hours"),
             hours |-> Get(sdata, "minutes"),
             minutes |-> Get(sdata, "area")]
      [] service = "charge_until" ->
            [op |-> "charge_until", imei |-> imei,
             hours |-> Get(sdata, "hours"),
             minutes |-> Get(sdata, "minutes"),
             weekday |-> Get(sdata, "weekday")]
      [] OTHER -> [op |-> service, imei |-> imei]

\* the task that runs the operation for a mower of the loaded entry
TaskOf == [A |-> "t1", B |-> "t2"]

(***************************************************************************)
(* The provisioning helpers (helpers.py).                                  *)
(***************************************************************************)
IMEI_LENGTH == 15
MaxImeiLen == 16

RECURSIVE Fill(_, _)
Fill(ch, n) == IF n <= 0 THEN <<>> ELSE <<ch>> \o Fill(ch, n - 1)

\* the identifiers given to validate_imei, as sequences of characters
ImeiPrefixes == {<<"3", "5">>, <<"3", "6">>, <<"X", "5">>}
ImeiChars == {"0", "X"}
ImeiStrings ==
    {p \o Fill(ch, n - Len(p)) :
        p \in ImeiPrefixes, ch \in ImeiChars,
        n \in (IMEI_LENGTH - 1)..MaxImeiLen}

\* str.startswith
StartsWith(str, prefix) ==
    /\ Len(str) >= Len(prefix)
    /\ SubSeq(str, 1, Len(prefix)) = prefix

\* validate_imei's test: the identifiers for which it raises ValueError
ImeiRejected(imei) ==
    ~StartsWith(imei, <<"3", "5">>) \/ Len(imei) # IMEI_LENGTH

ThingFindRequest(imei) ==
    [command |-> "thing.find", params |-> [imei |-> imei]]

\* what validate_imei ends with for an outcome of the thing.find execute
ValidateReturn(outcome) ==
    IF outcome \in ClientErrors THEN outcome
    ELSE IF outcome = "True" THEN "returned"
    ELSE "KeyError"

\* get_client_key's limit: it breaks when attempts > 10
MAX_ATTEMPTS == 10

\* the loop's exit test, after an attempt
Breaks_AtLimit(ok, attempts) == ok \/ attempts >= MAX_ATTEMPTS
Breaks(ok, attempts) == ok \/ attempts > MAX_ATTEMPTS

\* the outcomes of client.app_auth
AppAuthOutcomes == {"True", "False"} \cup ClientErrors

\* the robot_client attributes of a mower
NumSlots == 5
Slots == 1..NumSlots
ClientKeyOld == "old"
ClientKeyNew == "new"
OtherKey == "other"
\* attrs of a mower: the slots that are set, each with the key it holds
AttrConfigs ==
    UNION {[S -> {ClientKeyOld, OtherKey}] : S \in SUBSET Slots}

\* the mowers given to replace_robot_client
ReplacedMowers == {"A"}

\* the entries of the thing.list payload replace_robot_client reads
ListedEntries ==
    {[key |-> k, attrs |-> a] : k \in {"A", Unregistered}, a \in AttrConfigs}
      \cup {[key |-> "A"], [id |-> "1"]}
\* the payloads it reads: no result, an empty list, a list of one entry
ListedPayloads ==
    {[result |-> <<e>>] : e \in ListedEntries}
      \cup {[result |-> <<>>], [success |-> TRUE]}

ReplaceListRequest(mowers_) ==
    [command |-> "thing.list",
     params |-> [show |-> <<"id", "key", "attrs">>, hideFields |-> TRUE,
                 keys |-> mowers_]]
AttributePublish(imei, slot, value) ==
    [command |-> "attribute.publish",
     params |-> [imei |-> imei, key |-> slot, value |-> value]]

\* get_first_empty_robot_client: the exception it raises ("none" if none) and
\* the number of the slot it returns
FirstEmptyRobotClient(mower, client_key) ==
    IF ~Has(mower, "attrs") THEN [raised |-> "KeyError", slot |-> 0]
    ELSE LET hits == {k \in Slots :
                        \/ k \notin DOMAIN mower["attrs"]
                        \/ mower["attrs"][k] = client_key} IN
         IF hits = {} THEN [raised |-> "IndexError", slot |-> 0]
         ELSE [raised |-> "none",
               slot |-> CHOOSE k \in hits : \A j \in hits : k <= j]

\* the position in result_list of the next entry the generator yields after
\* position i, 0 when there is none
NextListed(result_list, i) ==
    LET later == {j \in (i + 1)..Len(result_list) :
                    /\ Has(result_list[j], "key")
                    /\ result_list[j]["key"] \in ReplacedMowers} IN
    IF later = {} THEN 0 ELSE CHOOSE j \in later : \A k \in later : j <= k

\* replace_robot_client's loop from after position i up to its next await,
\* its return or its exception
ReplaceLoop(r, i) ==
    LET j == NextListed(r.result_list, i) IN
    IF j = 0 THEN [r EXCEPT !.pc = "done"]
    ELSE LET found == FirstEmptyRobotClient(r.result_list[j], ClientKeyOld) IN
         IF found.raised # "none"
         THEN [r EXCEPT !.pc = "raised", !.exc = found.raised, !.idx = j]
         ELSE [r EXCEPT !.pc = "publish", !.idx = j,
                        !.sent = Append(@, AttributePublish(
                                    r.result_list[j]["key"], found.slot,
                                    ClientKeyNew))]

NoValidation == [pc |-> "idle", imei |-> <<>>, sent |-> <<>>,
                 outcome |-> "none"]
NoKeygen == [pc |-> "idle", attempts |-> 0, client_key |-> 0,
             result |-> FALSE, outcome |-> "none"]
NoReplacement == [pc |-> "idle", result_list |-> <<>>, idx |-> 0,
                  sent |-> <<>>, exc |-> "none", cloud |-> <<>>]

(***************************************************************************)
(* The entity (entity.py).                                                 *)
(***************************************************************************)
\* len(ROBOT_STATES): the states 0 .. ROBOT_STATES_LEN - 1 are known
ROBOT_STATES_LEN == 3

\* the manufacturer MANUFACTURER_MAP names for the first two characters of a
\* serial number
MANUFACTURER_DEFAULT == "MANUFACTURER_DEFAULT"
MANUFACTURER_MAP == [AM |-> "Ambrogio"]
ManufacturerKey(prefix) ==
    IF prefix = <<"A", "M">> THEN "AM" ELSE "other"

\* serial numbers, as sequences of characters
SerialLong == <<"A", "M", "0", "1", "A", "7">>
SerialOther == <<"K", "B", "0", "2", "B", "1">>
SerialShort == <<"A", "M", "0">>

\* the entities: one of a mower of every registration, one of a mower that
\* only the longer registration has
EntityImeis == {"A", "B"}

\* ZcsMowerEntity.__init__; the location {latitude: None, longitude: None} is
\* written None
NewEntity(imei) ==
    [imei |-> imei, state |-> 0, available |-> TRUE, location |-> None,
     serial |-> None, model |-> None, manufacturer |-> MANUFACTURER_DEFAULT]

\* the state an entity reports for a snapshot state
ReportedState_Inclusive(state) ==
    IF state <= ROBOT_STATES_LEN THEN state ELSE 0
ReportedState(state) ==
    IF state < ROBOT_STATES_LEN THEN state ELSE 0

\* _update_handler, for the entity ent and coordinator.data
UpdateEntity(ent, data_) ==
    IF ent.imei \in DOMAIN data_
    THEN LET robot == data_[ent.imei]
             state == ReportedState(robot.state)
             serial == robot.serial
             long == serial # None /\ \A sn \in serial : Len(sn) > 4
             model == IF long
                      THEN {SubSeq(sn, 1, 5) : sn \in serial}
                      ELSE ent.model
             manufacturer ==
                IF long /\ \A sn \in serial :
                      ManufacturerKey(SubSeq(sn, 1, 2))
                        \in DOMAIN MANUFACTURER_MAP
                THEN MANUFACTURER_MAP[
                        ManufacturerKey(
                            SubSeq(CHOOSE sn \in serial : TRUE, 1, 2))]
                ELSE ent.manufacturer
         IN [imei |-> ent.imei,
             state |-> state,
             available |-> state > 0,
             location |-> IF robot.location # None THEN robot.location
                          ELSE ent.location,
             serial |-> serial,
             model |-> model,
             manufacturer |-> manufacturer]
    ELSE ent

\* thing.list payloads for mower A: states below, at and above the number of
\* known states, with and without coordinates and serial number
EntityBody(state, coords, serials) ==
    [alarms |->
        [robot_state |->
            [k \in {"state"} \cup coords |->
                CASE k = "state" -> state
                  [] k = "lat" -> 45
                  [] k = "lng" -> 9]]]
    @@ IF serials = {} THEN EmptyObject
       ELSE [attrs |-> [robot_serial |->
                [value |-> CHOOSE sn \in serials : TRUE]]]
EntityPayloads ==
    {[success |-> TRUE]}
    \cup {[result |-> <<Keyed("A", EntityBody(st, coords, {}))>>] :
            st \in (ROBOT_STATES_LEN - 1)..(ROBOT_STATES_LEN + 1),
            coords \in {{}, {"lat", "lng"}}}
    \cup {[result |-> <<Keyed("A", EntityBody(1, {}, {sn}))>>] :
            sn \in {SerialLong, SerialOther, SerialShort}}

\* what get_response gives the refresh: the task does not suspend between
\* the return of its execute and get_response, so it is the payload its
\* execute decoded (captured) and not what the client holds at a later step
\* (latest)
ResponseRead_AfterSuspension(captured, latest) == latest
ResponseRead(captured, latest) == captured

(***************************************************************************)
(* State.                                                                  *)
(***************************************************************************)
VARIABLES
    mowers,               \* coordinator.mowers: the registered imeis, in order
    data,                 \* coordinator.data: the published snapshot
    last_update_success,  \* coordinator.last_update_success
    last_exception,       \* what the last _async_update_data raised, or "none"
    published,            \* snapshots published so far (history)
    last_returned,        \* the mapping the last successful refresh returned
    nrefresh,             \* refresh cycles started
    rpc,                  \* where the refresh task is
    mower_data,           \* _async_update_data's local mapping
    mower_imeis,          \* _async_update_data's local list
    rsent,                \* requests issued by the refresh cycle under way
    client_response,      \* the client's last decoded payload
    refresh_response,     \* the payload the refresh's execute decoded (own)
                          \* and the one its get_response gave it (got)
    pc,                   \* where each command task is
    call,                 \* the invocation each command task runs
    sent,                 \* requests issued by each command task, with status
    result,               \* what each command task's operation yielded
    seen,                 \* what a consumer last read of coordinator.data
    svc,                  \* the service call handled
    hpc,                  \* where the service handler is
    handler_exc,          \* the exception that left the service handler
    dispatched,           \* the coroutines the handler made tasks of
    validation,           \* a call of validate_imei
    keygen,               \* a call of get_client_key
    replacement,          \* a call of replace_robot_client
    entities              \* the entities' attributes

vars ==
    <<mowers, data, last_update_success, last_exception, published, last_returned,
      nrefresh, rpc, mower_data, mower_imeis, rsent, client_response,
      refresh_response, pc, call,
      sent, result, seen, svc, hpc, handler_exc, dispatched, validation,
      keygen, replacement, entities>>

refreshVars ==
    <<data, last_update_success, last_exception, published, last_returned,
      nrefresh, rpc, mower_data, mower_imeis, rsent,
      refresh_response>>
commandVars == <<pc, call, sent, result>>
\* what neither the refresh nor a command operation writes
routerVars == <<svc, hpc, handler_exc, dispatched>>
helperVars == <<validation, keygen, replacement>>
restVars == <<seen, routerVars, helperVars, entities>>

\* coordinator.data before any refresh has returned
NoData == [none |-> TRUE]
NoPayload == [none |-> TRUE]

\* ZcsMowerDataUpdateCoordinator.__init__: it stores mowers and client and
\* creates no row
Init ==
    /\ mowers \in Registrations
    /\ data = NoData
    /\ last_update_success = TRUE
    /\ last_exception = "none"
    /\ published = 0
    /\ last_returned = NoData
    /\ nrefresh = 0
    /\ rpc = "idle"
    /\ mower_data = <<>>
    /\ mower_imeis = <<>>
    /\ rsent = <<>>
    /\ client_response = NoPayload
    /\ refresh_response = [own |-> NoPayload, got |-> NoPayload]
    /\ pc = [t \in Tasks |-> "idle"]
    /\ call = [t \in Tasks |-> NoCall]
    /\ sent = [t \in Tasks |-> <<>>]
    /\ result = [t \in Tasks |-> "none"]
    /\ seen = [snap |-> NoData, rpc |-> "idle"]
    /\ svc = NoService
    /\ hpc = "idle"
    /\ handler_exc = "none"
    /\ dispatched = {}
    /\ validation = NoValidation
    /\ keygen = NoKeygen
    /\ replacement = NoReplacement
    /\ entities = [e \in EntityImeis |-> NewEntity(e)]

(***************************************************************************)
(* Command operations.                                                     *)
(***************************************************************************)
\* a command operation is invoked: it enters async_wake_up, which issues
\* sms.send and suspends
Invoke(t, c) ==
    /\ pc[t] = "idle"
    /\ call' = [call EXCEPT ![t] = c]
    /\ sent' = [sent EXCEPT ![t] = <<InFlight(WakeUpRequest(c.imei))>>]
    /\ pc' = [pc EXCEPT ![t] = "wake_up"]
    /\ UNCHANGED <<result, client_response, mowers, refreshVars, restVars>>

\* the sms.send is answered; async_wake_up returns (or lets the exception go)
\* and the operation issues method.exec and suspends
WakeUpDone(t, outcome) ==
    /\ pc[t] = "wake_up"
    /\ client_response' =
          IF outcome \in ClientErrors THEN client_response ELSE CommandPayload
    /\ IF WakeUpReturn(outcome) = "raised"
       THEN /\ sent' = [sent EXCEPT ![t] = <<Answered(@[1], outcome)>>]
            /\ result' = [result EXCEPT ![t] = CommandReturn(outcome)]
            /\ pc' = [pc EXCEPT ![t] = "done"]
       ELSE IF ParamsError(call[t]) # "none"
       THEN /\ sent' = [sent EXCEPT ![t] = <<Answered(@[1], outcome)>>]
            /\ result' = [result EXCEPT ![t] =
                            CommandReturn(ParamsError(call[t]))]
            /\ pc' = [pc EXCEPT ![t] = "done"]
       ELSE /\ sent' = [sent EXCEPT ![t] =
                          <<Answered(@[1], outcome),
                            InFlight(MethodRequest(call[t]))>>]
            /\ pc' = [pc EXCEPT ![t] = "method_exec"]
            /\ UNCHANGED result
    /\ UNCHANGED <<call, mowers, refreshVars, restVars>>

\* the method.exec is answered; the operation returns
MethodDone(t, outcome) ==
    /\ pc[t] = "method_exec"
    /\ client_response' =
          IF outcome \in ClientErrors THEN client_response ELSE CommandPayload
    /\ sent' = [sent EXCEPT ![t] = [@ EXCEPT ![2] = Answered(@, outcome)]]
    /\ result' = [result EXCEPT ![t] = CommandReturn(outcome)]
    /\ pc' = [pc EXCEPT ![t] = "done"]
    /\ UNCHANGED <<call, mowers, refreshVars, restVars>>

(***************************************************************************)
(* Refresh.                                                                *)
(***************************************************************************)
\* _async_update_data is entered: it builds the placeholder rows, issues the
\* batched fetch and suspends
RefreshStart ==
    /\ rpc = "idle"
    /\ nrefresh < MaxRefresh
    /\ nrefresh' = nrefresh + 1
    /\ mower_data' = InitialRows(mowers)
    /\ mower_imeis' = CollectImeis(mowers)
    /\ rsent' = [i \in DOMAIN ThingListRequests(CollectImeis(mowers)) |->
                    InFlight(ThingListRequests(CollectImeis(mowers))[i])]
    /\ rpc' = "execute"
    /\ data' = DataWhileFetching(data, InitialRows(mowers))
    /\ UNCHANGED <<last_update_success, last_exception, published, last_returned,
                   client_response, refresh_response, mowers, commandVars,
                   restVars>>

\* execute returns: the client has decoded a payload
ExecuteReturns(payload) ==
    /\ rpc = "execute"
    /\ client_response' = payload
    /\ refresh_response' = [own |-> payload, got |-> NoPayload]
    /\ rsent' = [rsent EXCEPT ![Len(rsent)] = Answered(@, "returned")]
    /\ rpc' = "get_response"
    /\ UNCHANGED <<data, last_update_success, last_exception, published,
                   last_returned, nrefresh, mower_data, mower_imeis, mowers,
                   commandVars, restVars>>

\* execute raises a client error: _async_update_data maps it and raises, and
\* the coordinator keeps its data
ExecuteRaises(exc) ==
    /\ rpc = "execute"
    /\ rsent' = [rsent EXCEPT ![Len(rsent)] = Answered(@, exc)]
    /\ last_exception' = RefreshRaises(exc)
    /\ last_update_success' = FALSE
    /\ rpc' = "idle"
    /\ UNCHANGED <<data, published, last_returned, nrefresh, mower_data,
                   mower_imeis, client_response, refresh_response, mowers,
                   commandVars, restVars>>

\* get_response returns the client's payload; the merge runs and
\* _async_update_data returns mower_data, which the coordinator publishes, or
\* raises
MergeAndPublish ==
    /\ rpc = "get_response"
    /\ LET got == ResponseRead(refresh_response.own, client_response)
           merged == MergeResponse(mower_data, got) IN
       /\ refresh_response' = [refresh_response EXCEPT !.got = got]
       /\ data' = DataAfterMerge(data, merged)
       /\ mower_data' = merged.rows
       /\ IF merged.exc = "none"
          THEN /\ last_update_success' = TRUE
               /\ last_exception' = "none"
               /\ published' = published + 1
               /\ last_returned' = merged.rows
          ELSE /\ last_update_success' = FALSE
               /\ last_exception' = RefreshRaises(merged.exc)
               /\ UNCHANGED <<published, last_returned>>
    /\ rpc' = "idle"
    /\ UNCHANGED <<nrefresh, mower_imeis, rsent, client_response, mowers,
                   commandVars, restVars>>

(***************************************************************************)
(* Consumers.                                                              *)
(***************************************************************************)
\* a consumer (an entity's _update_handler) reads coordinator.data
UpdateHandler ==
    /\ seen' = [snap |-> data, rpc |-> rpc]
    /\ UNCHANGED <<mowers, client_response, refreshVars, commandVars,
                   routerVars, helperVars, entities>>

\* _handle_coordinator_update / async_update of the entity of imei: the
\* entities are set up after the first refresh has succeeded
EntityUpdate(imei) ==
    /\ data # NoData
    /\ entities' = [entities EXCEPT ![imei] = UpdateEntity(@, data)]
    /\ UNCHANGED <<mowers, client_response, refreshVars, commandVars, seen,
                   routerVars, helperVars>>

(***************************************************************************)
(* Service handlers.                                                       *)
(***************************************************************************)
\* async_handle_<service>: it resolves the targets, then for each target
\* builds the coroutine of the coordinator's operation and makes a task of it.
\* The handler does not suspend; an exception leaves it to the platform.
HandleService(service, device_ids, sdata) ==
    /\ hpc = "idle"
    /\ svc' = [service |-> service, device_ids |-> device_ids, data |-> sdata]
    /\ hpc' = "done"
    /\ LET r == ResolveTargets(device_ids) IN
       IF r.raised # "none"
       THEN handler_exc' = r.raised /\ dispatched' = {}
       ELSE IF r.targets # {} /\ service \notin CoordinatorOps
       THEN handler_exc' = "AttributeError" /\ dispatched' = {}
       ELSE /\ handler_exc' = "none"
            /\ dispatched' =
                  {CoroutineFor(service, imei, sdata) : imei \in r.targets}
    /\ UNCHANGED <<mowers, client_response, refreshVars, commandVars, seen,
                   helperVars, entities>>

(***************************************************************************)
(* Provisioning helpers.                                                   *)
(***************************************************************************)
notHelperVars ==
    <<mowers, client_response, refreshVars, commandVars, seen, routerVars,
      entities>>

\* no helper has been called: a behaviour is one call of one helper
HelpersIdle ==
    /\ validation.pc = "idle"
    /\ keygen.pc = "idle"
    /\ replacement.pc = "idle"

\* validate_imei up to its await of thing.find
ValidateImei(imei) ==
    /\ HelpersIdle
    /\ validation' =
          IF ImeiRejected(imei)
          THEN [validation EXCEPT !.pc = "done", !.imei = imei,
                                  !.outcome = "ValueError"]
          ELSE [validation EXCEPT !.pc = "find", !.imei = imei,
                                  !.sent = <<ThingFindRequest(imei)>>]
    /\ UNCHANGED <<notHelperVars, keygen, replacement>>

\* validate_imei after the thing.find execute
FindDone(outcome) ==
    /\ validation.pc = "find"
    /\ validation' = [validation EXCEPT !.pc = "done",
                                        !.outcome = ValidateReturn(outcome)]
    /\ UNCHANGED <<notHelperVars, keygen, replacement>>

\* get_client_key is called
GetClientKey ==
    /\ HelpersIdle
    /\ keygen' = [keygen EXCEPT !.pc = "loop"]
    /\ UNCHANGED <<notHelperVars, validation, replacement>>

\* one turn of get_client_key's loop: a key is generated (the n-th attempt
\* generates key n), app_auth is tried with it, and the loop breaks or goes on
AuthAttempt(outcome) ==
    /\ keygen.pc = "loop"
    /\ LET n == keygen.attempts + 1
           ok == outcome = "True" IN
       keygen' =
          IF outcome = ZcsMowerApiError
          THEN [keygen EXCEPT !.pc = "raised", !.attempts = n,
                              !.client_key = n, !.outcome = outcome]
          ELSE [pc |-> IF Breaks(ok, n) THEN "returned" ELSE "loop",
                attempts |-> n,
                client_key |-> n,
                result |-> ok,
                outcome |-> IF Breaks(ok, n) THEN "returned" ELSE "none"]
    /\ UNCHANGED <<notHelperVars, validation, replacement>>

\* replace_robot_client up to its await of thing.list
ReplaceRobotClient ==
    /\ HelpersIdle
    /\ replacement' =
          [replacement EXCEPT !.pc = "list",
                              !.sent = <<ReplaceListRequest(<<"A">>)>>]
    /\ UNCHANGED <<notHelperVars, validation, keygen>>

\* the thing.list execute raises
ReplaceListRaises(exc) ==
    /\ replacement.pc = "list"
    /\ replacement' = [replacement EXCEPT !.pc = "raised", !.exc = exc]
    /\ UNCHANGED <<notHelperVars, validation, keygen>>

\* the thing.list execute returns and get_response gives the payload: the loop
\* runs to its first attribute.publish
ReplaceListReturns(response) ==
    /\ replacement.pc = "list"
    /\ replacement' =
          IF Has(response, "result")
          THEN ReplaceLoop(
                 [replacement EXCEPT
                    !.result_list = response["result"],
                    !.cloud = [i \in 1..Len(response["result"]) |->
                                 IF Has(response["result"][i], "attrs")
                                 THEN response["result"][i]["attrs"]
                                 ELSE EmptyObject]], 0)
          ELSE [replacement EXCEPT !.pc = "done"]
    /\ UNCHANGED <<notHelperVars, validation, keygen>>

\* the attribute.publish execute ends: an exception leaves the helper, a
\* return (its value is not looked at) lets the loop go on; the platform has
\* set the slot when it returned true
PublishDone(outcome) ==
    /\ replacement.pc = "publish"
    /\ LET req == replacement.sent[Len(replacement.sent)]
           i == replacement.idx IN
       replacement' =
          IF outcome \in ClientErrors
          THEN [replacement EXCEPT !.pc = "raised", !.exc = outcome]
          ELSE ReplaceLoop(
                 [replacement EXCEPT
                    !.cloud[i] =
                       IF outcome = "True"
                       THEN [k \in DOMAIN @ \cup {req.params.key} |->
                               IF k = req.params.key THEN req.params.value
                               ELSE @[k]]
                       ELSE @], i)
    /\ UNCHANGED <<notHelperVars, validation, keygen>>

(***************************************************************************)
(* Specifications.                                                         *)
(***************************************************************************)
NextCommands ==
    \/ \E t \in Tasks, c \in Calls : Invoke(t, c)
    \/ \E t \in Tasks, o \in ExecuteOutcomes : WakeUpDone(t, o)
    \/ \E t \in Tasks, o \in ExecuteOutcomes : MethodDone(t, o)

NextRefresh ==
    \/ RefreshStart
    \/ \E p \in Payloads : ExecuteReturns(p)
    \/ \E e \in ClientErrors : ExecuteRaises(e)
    \/ MergeAndPublish

\* concurrently running command operations
SpecCommands == Init /\ [][NextCommands]_vars

\* the refresh cycle
SpecRefresh == Init /\ [][NextRefresh]_vars

\* the payloads, tasks and invocations of the whole coordinator at work
SystemPayloads ==
    {[success |-> TRUE]}
    \cup {[result |-> <<e>>] :
            e \in {Keyed("A", BodyFull), Keyed("A", BodyStateOnly),
                   Keyed("A", BodyNoState), Keyed("B", BodyNoAlarms)}}
SystemTasks == {"t1"}
SystemCalls ==
    {[op |-> "border_cut", imei |-> "A"],
     [op |-> "set_profile", imei |-> "B", profile |-> 1]}

NextSystem ==
    \/ RefreshStart
    \/ \E p \in SystemPayloads : ExecuteReturns(p)
    \/ \E e \in ClientErrors : ExecuteRaises(e)
    \/ MergeAndPublish
    \/ UpdateHandler
    \/ \E t \in SystemTasks, c \in SystemCalls : Invoke(t, c)
    \/ \E t \in SystemTasks, o \in ExecuteOutcomes : WakeUpDone(t, o)
    \/ \E t \in SystemTasks, o \in ExecuteOutcomes : MethodDone(t, o)

\* refreshes, command operations and consumers interleaved
SpecSystem == Init /\ [][NextSystem]_vars

\* thing.list payloads for mower A whose robot_state carries a state and any
\* of lat and lng
RobotStateBody(state, coords) ==
    [alarms |->
        [robot_state |->
            [k \in {"state"} \cup coords |->
                CASE k = "state" -> state
                  [] k = "lat" -> 45
                  [] k = "lng" -> 9]]]
LocationEntries ==
    {Keyed("A", RobotStateBody(st, coords)) :
        st \in {1, 5}, coords \in SUBSET {"lat", "lng"}}
LocationPayloads ==
    {[result |-> <<e>>] : e \in LocationEntries}
    \cup {[result |-> <<e1, e2>>] : e1, e2 \in LocationEntries}

NextLocation ==
    \/ RefreshStart
    \/ \E p \in LocationPayloads : ExecuteReturns(p)
    \/ \E e \in ClientErrors : ExecuteRaises(e)
    \/ MergeAndPublish

\* refreshes whose responses carry states with and without coordinates
SpecLocation == Init /\ [][NextLocation]_vars

NextEntity ==
    \/ RefreshStart
    \/ \E p \in EntityPayloads : ExecuteReturns(p)
    \/ \E e \in ClientErrors : ExecuteRaises(e)
    \/ MergeAndPublish
    \/ \E imei \in EntityImeis : EntityUpdate(imei)

\* refreshes and the entities that read their snapshots
SpecEntity == Init /\ [][NextEntity]_vars

NextServices ==
    \/ \E s \in Services, ids \in TargetSets :
          \E sd \in ServiceData(s) : HandleService(s, ids, sd)
    \/ \E c \in dispatched : Invoke(TaskOf[c.imei], c)
    \/ \E t \in Tasks, o \in ExecuteOutcomes : WakeUpDone(t, o)
    \/ \E t \in Tasks, o \in ExecuteOutcomes : MethodDone(t, o)

\* a service call and the command operations it starts
SpecServices == Init /\ [][NextServices]_vars

NextProvisioning ==
    \/ \E imei \in ImeiStrings : ValidateImei(imei)
    \/ \E o \in ExecuteOutcomes : FindDone(o)
    \/ GetClientKey
    \/ \E o \in AppAuthOutcomes : AuthAttempt(o)
    \/ ReplaceRobotClient
    \/ \E e \in ClientErrors : ReplaceListRaises(e)
    \/ \E p \in ListedPayloads : ReplaceListReturns(p)
    \/ \E o \in ExecuteOutcomes : PublishDone(o)

\* the provisioning helpers, each called once
SpecProvisioning == Init /\ [][NextProvisioning]_vars

\* the same, where every app_auth that get_client_key awaits ends
SpecProvisioningFair ==
    SpecProvisioning /\ WF_vars(\E o \in AppAuthOutcomes : AuthAttempt(o))

(***************************************************************************)
(* Properties of the command operations (SpecCommands).                    *)
(***************************************************************************)
Commands(t, name) == {i \in 1..Len(sent[t]) : sent[t][i].command = name}
Failed(req) == req.status \in ClientErrors \cup {"False"}

\* C1: in every interleaving of command operations, an operation's sms.send is
\* issued first and is answered (returned or raised) before its method.exec is
\* issued; a wake-up that raises or returns false does not keep the method.exec
\* from being issued, and the operation then yields what the method call
\* returned (true when it succeeded).
C1_WakeUpThenMethod ==
    \A t \in Tasks :
        /\ pc[t] # "idle" => sent[t][1].command = "sms.send"
        /\ \A i \in Commands(t, "method.exec") :
              /\ i = 2
              /\ sent[t][1].command = "sms.send"
              /\ sent[t][1].status # "inflight"
        /\ pc[t] = "wake_up" => sent[t][1].status = "inflight"
        /\ (pc[t] \in {"method_exec", "done"} /\ Failed(sent[t][1])) =>
              Commands(t, "method.exec") = {2}
        /\ (pc[t] = "done" /\ Failed(sent[t][1])) =>
              /\ sent[t][2].status # "inflight"
              /\ sent[t][2].status = "True" => result[t] = "True"

\* border_cut's wake-up raised, its method call succeeded and it returned true,
\* while the other operation was still waiting for its own method call
C1_Witness ==
    \E t, u \in Tasks :
        /\ t # u
        /\ call[t].op = "border_cut"
        /\ pc[t] = "done"
        /\ sent[t][1].status \in ClientErrors
        /\ sent[t][2].status = "True"
        /\ result[t] = "True"
        /\ pc[u] = "method_exec"

MethodStatus(t) == sent[t][Len(sent[t])].status

\* C2, as stated: a command operation never raises, and every exception of the
\* client during the wake-up or the method call makes it return false.
C2_AnyExceptionYieldsFalse ==
    \A t \in Tasks :
        /\ result[t] # "raised"
        /\ pc[t] = "done" =>
              ((\E i \in 1..Len(sent[t]) : sent[t][i].status \in ClientErrors)
                  => result[t] = "False")

\* C2, amended: a command operation never raises; while it has not returned it
\* is waiting for one request; an exception of the client during the method
\* call makes it return false, an exception during the wake-up is swallowed by
\* the wake-up, and the operation returns the client's outcome of the method
\* call exactly when that call raised nothing.
C2_NeverRaises ==
    \A t \in Tasks :
        /\ result[t] # "raised"
        /\ result[t] = "none" <=> pc[t] # "done"
        /\ pc[t] \in {"wake_up", "method_exec"} => MethodStatus(t) = "inflight"
        /\ pc[t] = "done" =>
              /\ Len(sent[t]) = 2
              /\ MethodStatus(t) \in ClientErrors => result[t] = "False"
              /\ MethodStatus(t) \notin ClientErrors => result[t] = MethodStatus(t)

\* a method call raised each kind of client error in turn and both operations
\* returned false
C2_Witness ==
    /\ \A t \in Tasks : pc[t] = "done" /\ result[t] = "False"
    /\ {sent[t][2].status : t \in Tasks} = ClientErrors

MethodParams(t) == sent[t][2].params

\* C9: the method.exec of set_profile(imei, p) carries params.profile = p - 1
\* (0 for p = 1); that of work_until(imei, a, h, m) carries area = a - 1, hh = h,
\* mm = m (2, 10, 30 for 3, 10, 30); charge_until carries hours, minutes and
\* weekday as given.
C9_IndexTranslation ==
    \A t \in Tasks : Len(sent[t]) = 2 =>
        /\ call[t].op = "set_profile" =>
              /\ MethodParams(t).params = [profile |-> call[t].profile - 1]
              /\ call[t].profile = 1 => MethodParams(t).params.profile = 0
        /\ call[t].op = "work_until" =>
              /\ MethodParams(t).params.area = call[t].area - 1
              /\ MethodParams(t).params.hh = call[t].hours
              /\ MethodParams(t).params.mm = call[t].minutes
              /\ DOMAIN MethodParams(t).params = {"area", "hh", "mm"}
        /\ call[t].op = "charge_until" =>
              MethodParams(t).params =
                  [hh |-> call[t].hours, mm |-> call[t].minutes,
                   weekday |-> call[t].weekday]

\* set_profile(1) sent profile 0 and work_until(3, 10, 30) sent 2, 10, 30
C9_Witness ==
    \E t, u \in Tasks :
        /\ call[t] = [op |-> "set_profile", imei |-> "A", profile |-> 1]
        /\ Len(sent[t]) = 2 /\ MethodParams(t).params.profile = 0
        /\ call[u] = [op |-> "work_until", imei |-> "B", area |-> 3,
                      hours |-> 10, minutes |-> 30]
        /\ Len(sent[u]) = 2
        /\ MethodParams(u).params = [area |-> 2, hh |-> 10, mm |-> 30]

\* C10: one invocation issues one sms.send, then one method.exec, and nothing
\* else; the method.exec names the operation's method and the caller's imei and
\* carries the fixed ackTimeout and singleton = true; charge_until(imei, 22, 0,
\* 3) sends method charge_until with params hh = 22, mm = 0, weekday = 3.
C10_OneWakeUpOneMethod ==
    \A t \in Tasks :
        /\ Len(sent[t]) <= 2
        /\ Cardinality(Commands(t, "sms.send")) <= 1
        /\ Cardinality(Commands(t, "method.exec")) <= 1
        /\ pc[t] = "idle" => sent[t] = <<>>
        /\ pc[t] = "wake_up" => Len(sent[t]) = 1
        /\ pc[t] # "idle" =>
              /\ sent[t][1].command = "sms.send"
              /\ sent[t][1].params =
                    [coding |-> "SEVEN_BIT", imei |-> call[t].imei,
                     message |-> "UP"]
        /\ pc[t] \in {"method_exec", "done"} =>
              /\ Len(sent[t]) = 2
              /\ sent[t][2].command = "method.exec"
              /\ sent[t][2].params.method = call[t].op
              /\ sent[t][2].params.imei = call[t].imei
              /\ sent[t][2].params.ackTimeout = API_ACK_TIMEOUT
              /\ sent[t][2].params.singleton = TRUE
              /\ call[t].op \in {"border_cut", "trace_position"} =>
                    "params" \notin DOMAIN sent[t][2].params
              /\ (/\ call[t].op = "charge_until" /\ call[t].hours = 22
                  /\ call[t].minutes = 0 /\ call[t].weekday = 3) =>
                    sent[t][2].params.params = [hh |-> 22, mm |-> 0, weekday |-> 3]

\* charge_until(22, 0, 3) has returned after its two requests
C10_Witness ==
    \E t \in Tasks :
        /\ call[t] = [op |-> "charge_until", imei |-> "B", hours |-> 22,
                      minutes |-> 0, weekday |-> 3]
        /\ pc[t] = "done"
        /\ sent[t][1].status = "True" /\ sent[t][2].status = "True"
        /\ sent[t][2].params.method = "charge_until"

(***************************************************************************)
(* Properties of the refresh cycle (SpecRefresh).                          *)
(***************************************************************************)
Registered == Range(mowers)
ResultOf(response) ==
    IF Has(response, "result") THEN response["result"] ELSE <<>>
\* the positions of the entries of a payload that carry the key d
EntriesFor(response, d) ==
    {i \in 1..Len(ResultOf(response)) :
        /\ Has(ResultOf(response)[i], "key")
        /\ ResultOf(response)[i]["key"] = d}
Omits(response, d, field) ==
    \A i \in EntriesFor(response, d) : ~Has(ResultOf(response)[i], field)
Last(S) == CHOOSE i \in S : \A j \in S : j <= i

\* a refresh returns its mapping in this step
Publishes == rpc = "get_response" /\ rpc' = "idle" /\ last_exception' = "none"

\* C3: when a successful refresh's entries for a device omit a field, the
\* published row keeps the value the field had in the snapshot published
\* before (state and location come with alarms, serial and software version
\* with attrs).
C3_PartialMerge ==
    [][(Publishes /\ published > 0) =>
        \A d \in Registered : EntriesFor(client_response, d) # {} =>
            /\ Omits(client_response, d, "alarms") =>
                  /\ data'[d].state = data[d].state
                  /\ data'[d].location = data[d].location
            /\ Omits(client_response, d, "attrs") =>
                  /\ data'[d].serial = data[d].serial
                  /\ data'[d].sw_version = data[d].sw_version
            /\ Omits(client_response, d, "connected") =>
                  data'[d].connected = data[d].connected
            /\ Omits(client_response, d, "lastCommunication") =>
                  data'[d].last_communication = data[d].last_communication
            /\ Omits(client_response, d, "lastSeen") =>
                  data'[d].last_seen = data[d].last_seen]_vars

\* C4: once a refresh has succeeded, whatever refreshes follow, the keys of the
\* published snapshot are exactly the registered identifiers, each row under
\* its own identifier; entries with an unregistered key or with no key create
\* no row, in the mapping under construction either.
C4_RowsAreRegistrations ==
    /\ published > 0 =>
          /\ DOMAIN data = Registered
          /\ \A d \in Registered : data[d].imei = d /\ data[d].name = Name(d)
    /\ rpc # "idle" => DOMAIN mower_data = Registered
    /\ (rpc = "idle" /\ nrefresh > 0 /\ last_exception = "none") => published > 0

\* a payload whose only entry has an unregistered key was merged, after an
\* earlier refresh had failed
C4_Witness ==
    /\ rpc = "idle" /\ nrefresh = 2 /\ published = 1
    /\ last_exception = "none"
    /\ client_response = [result |-> <<Keyed(Unregistered, BodyFull)>>]
    /\ DOMAIN data = Registered

IsPlaceholder(row) ==
    /\ row.state = 0 /\ row.connected = FALSE
    /\ row.serial = None /\ row.sw_version = None /\ row.location = None
    /\ row.last_communication = None /\ row.last_seen = None

\* C5: from construction on the snapshot holds one row per registered
\* identifier, and until a refresh has succeeded every row has state 0,
\* connected false and the nullable fields null.
C5_RowsFromConstruction ==
    /\ DOMAIN data = Registered
    /\ published = 0 => \A d \in Registered : IsPlaceholder(data[d])

\* C6: when execute raises the authentication error the refresh raises
\* ConfigEntryAuthFailed, when it raises any other client error the refresh
\* raises UpdateFailed, and either way the published snapshot stays as it was.
C6_ErrorMapping ==
    [][(rpc = "execute" /\ rpc' = "idle") =>
        /\ rsent'[1].status = ZcsMowerApiAuthenticationError =>
              last_exception' = "ConfigEntryAuthFailed"
        /\ rsent'[1].status = ZcsMowerApiError =>
              last_exception' = "UpdateFailed"
        /\ last_exception' \in {"ConfigEntryAuthFailed", "UpdateFailed"}
        /\ ~last_update_success'
        /\ data' = data /\ published' = published]_vars

\* the second refresh met an authentication failure and the snapshot of the
\* first is still published
C6_Witness ==
    /\ rpc = "idle" /\ nrefresh = 2 /\ published = 1
    /\ rsent[1].status = ZcsMowerApiAuthenticationError
    /\ last_exception = "ConfigEntryAuthFailed"
    /\ data["A"].state = 5

\* C7: a refresh issues one request, thing.list, whose keys are the list of
\* all registered identifiers, however many are registered.
C7_OneBatchedRequest ==
    /\ nrefresh = 0 => rsent = <<>>
    /\ nrefresh > 0 =>
          /\ Len(rsent) = 1
          /\ rsent[1].command = "thing.list"
          /\ rsent[1].params.keys = mowers
          /\ rsent[1].params.hideFields = TRUE
          /\ rsent[1].params.show = ShowFields

\* two refreshes of a coordinator with two registrations have completed
C7_Witness ==
    /\ mowers = <<"A", "B">>
    /\ rpc = "idle" /\ nrefresh = 2 /\ published = 2
    /\ rsent[1].params.keys = <<"A", "B">>

HasField(response, d, field) ==
    {i \in EntriesFor(response, d) : Has(ResultOf(response)[i], field)}
HasState(response, d) ==
    {i \in EntriesFor(response, d) : HasRobotState(ResultOf(response)[i])}

\* C8: a payload with no "result", or with no entry for any registered device,
\* is merged without error; after a merge without error every registered
\* device with no entry has the placeholder values, and a device with entries
\* has the connected flag and the state of the last entry that carries them.
C8_AbsentDevicesArePlaceholders ==
    [][(rpc = "get_response" /\ rpc' = "idle") =>
        /\ (\/ ~Has(client_response, "result")
            \/ \A d \in Registered : EntriesFor(client_response, d) = {}) =>
              /\ last_exception' = "none"
              /\ \A d \in Registered : IsPlaceholder(data'[d])
        /\ last_exception' = "none" =>
              \A d \in Registered :
                /\ EntriesFor(client_response, d) = {} => IsPlaceholder(data'[d])
                /\ HasField(client_response, d, "connected") # {} =>
                      data'[d].connected =
                          ResultOf(client_response)[
                              Last(HasField(client_response, d, "connected"))
                          ]["connected"]
                /\ HasState(client_response, d) # {} =>
                      data'[d].state =
                          ResultOf(client_response)[
                              Last(HasState(client_response, d))
                          ]["alarms"]["robot_state"]["state"]]_vars

\* A and B registered, the payload held only A with connected = true and
\* state = 3, after a refresh that had published values for B
C8_Witness ==
    /\ mowers = <<"A", "B">>
    /\ rpc = "idle" /\ last_exception = "none" /\ published = 2
    /\ client_response = [result |-> <<Keyed("A", BodyStateOnly)>>]
    /\ data["A"].connected = TRUE /\ data["A"].state = 3
    /\ data["B"].state = 0 /\ data["B"].connected = FALSE
    /\ IsPlaceholder(data["B"])

MalformedEntry(mower) ==
    \/ /\ Has(mower, "alarms") /\ Has(mower["alarms"], "robot_state")
       /\ ~Has(mower["alarms"]["robot_state"], "state")
    \/ /\ Has(mower, "attrs")
       /\ \E a \in {"robot_serial", "program_version"} :
             Has(mower["attrs"], a) /\ ~Has(mower["attrs"][a], "value")
    \/ \E f \in {"lastSeen", "lastCommunication"} :
          Has(mower, f) /\ mower[f] \notin {DateSeen, DateComm}

\* C14: when the payload's entry for a registered device is malformed
\* (robot_state without state, an attribute without value, a date not in the
\* fixed format), the refresh raises UpdateFailed and the published snapshot
\* stays as it was.
C14_MalformedIsUpdateFailed ==
    [][(/\ rpc = "get_response" /\ rpc' = "idle"
        /\ \E d \in Registered : \E i \in EntriesFor(client_response, d) :
              MalformedEntry(ResultOf(client_response)[i])) =>
        /\ last_exception' = "UpdateFailed"
        /\ ~last_update_success'
        /\ data' = data]_vars

(***************************************************************************)
(* Properties of the coordinator at work (SpecSystem).                     *)
(***************************************************************************)
\* C12: whenever a consumer reads, in whatever phase of a refresh, it sees the
\* mapping the last successful refresh returned, whole (or no data before the
\* first): never rows of the refresh under way.
C12_AtomicSnapshot ==
    /\ [](/\ data = last_returned
          /\ published = 0 => data = NoData
          /\ published > 0 => DOMAIN data = Registered
          /\ seen.snap = NoData \/ DOMAIN seen.snap = Registered)
    /\ [][seen' # seen => seen'.snap = last_returned]_vars

\* a consumer read while the second refresh waited for its payload and saw the
\* first refresh's mapping
C12_Witness ==
    /\ nrefresh = 2 /\ published = 1
    /\ seen.rpc = "get_response"
    /\ seen.snap = last_returned
    /\ seen.snap["A"].state = 5
    /\ mower_data["A"].state = 0

\* C13: no step changes the registrations; the published snapshot changes only
\* in the step in which a refresh returns its mapping; no step of a command
\* operation (wake-up included), successful or not, changes the snapshot.
C13_OnlyRefreshWrites ==
    [][/\ mowers' = mowers
       /\ data' # data => Publishes
       /\ commandVars' # commandVars =>
             /\ data' = data
             /\ published' = published
             /\ last_returned' = last_returned]_vars

\* the snapshot of the one successful refresh is still published after a
\* command operation returned false
C13_Witness ==
    /\ published = 1 /\ rpc = "idle"
    /\ data = last_returned /\ data["A"].state = 5
    /\ pc["t1"] = "done" /\ result["t1"] = "False"
    /\ mowers = <<"A", "B">>

(***************************************************************************)
(* The service router's claims.                                            *)
(***************************************************************************)
\* the targets the handled service call resolves to
Resolution == ResolveTargets(svc.device_ids)
\* the imeis the handler made a task for
DispatchedImeis == {c.imei : c \in dispatched}
\* the fields of its service that the handled call omits
Omitted ==
    CASE svc.service = "set_profile" -> {"profile"} \ DOMAIN svc.data
      [] svc.service = "work_until" -> {"area"} \ DOMAIN svc.data
      [] OTHER -> {}

\* C11, as stated: a call of any of the nine services for a resolved target
\* raises nothing to the platform and starts, for that target, the
\* coordinator's operation of that name, which issues the wake-up and then the
\* method call and yields a boolean.
C11_EveryServiceReachesItsOperation ==
    (hpc = "done" /\ Resolution.raised = "none" /\ Resolution.targets # {}) =>
        /\ handler_exc = "none"
        /\ DispatchedImeis = Resolution.targets
        /\ \A c \in dispatched :
              /\ c.op = svc.service
              /\ pc[TaskOf[c.imei]] = "done" =>
                    result[TaskOf[c.imei]] \in {"True", "False"}

\* C15, as stated: when the service call omits an optional field, the command
\* operation it starts still issues its method.exec after the wake-up, and a
\* method call that returned true makes the operation yield true.
C15_AbsentFieldIsNotAnError ==
    \A c \in dispatched :
        LET t == TaskOf[c.imei] IN
        (Omitted # {} /\ pc[t] = "done" /\ sent[t][1].status = "True") =>
            /\ Commands(t, "method.exec") = {2}
            /\ MethodStatus(t) = "True" => result[t] = "True"

\* the devices of a call that are mowers of an entry with a coordinator
ExpectedTargets ==
    UNION {{ident[2] : ident \in {i \in DeviceRegistry[d].identifiers :
                                     i[1] = DOMAIN_}} :
            d \in {x \in svc.device_ids \cap DOMAIN DeviceRegistry :
                      DeviceRegistry[x].config_entries \cap LoadedEntries
                        # {}}}

\* C16, as stated: resolving the targets of a service call never raises, and
\* a call of an implemented service dispatches exactly one command for each
\* target that is a mower of an entry with a coordinator, and none for any
\* other target.
C16_ResolutionNeverRaises ==
    hpc = "done" =>
        /\ handler_exc # "IndexError"
        /\ svc.service \in CoordinatorOps =>
              /\ DispatchedImeis = ExpectedTargets
              /\ Cardinality(dispatched) = Cardinality(ExpectedTargets)

Digits == {"0", "1", "2", "3", "4", "5", "6", "7", "8", "9"}
\* exactly 15 digits starting with "35"
WellFormedImei(imei) ==
    /\ Len(imei) = IMEI_LENGTH
    /\ StartsWith(imei, <<"3", "5">>)
    /\ \A i \in 1..Len(imei) : imei[i] \in Digits

\* C17, as stated: for an identifier that is not exactly 15 digits starting
\* with "35", validate_imei raises ValueError and issues no request.
C17_MalformedImeiIsValueError ==
    (validation.pc # "idle" /\ ~WellFormedImei(validation.imei)) =>
        /\ validation.pc = "done"
        /\ validation.outcome = "ValueError"
        /\ validation.sent = <<>>

\* C19, as stated: when get_client_key returns a key, the app_auth attempt
\* made with that key succeeded.
C19_ReturnedKeyIsValidated ==
    keygen.pc = "returned" => keygen.result

\* the attribute.publish requests replace_robot_client sent for the entry at
\* position j
PublishesFor(j) ==
    {i \in 1..Len(replacement.sent) :
        /\ replacement.sent[i].command = "attribute.publish"
        /\ replacement.sent[i].params.imei = replacement.result_list[j]["key"]}
\* the slots of attrs that hold the key v
Holding(attrs, v) == {k \in DOMAIN attrs : attrs[k] = v}

\* C20, as stated: when replace_robot_client has returned, for each listed
\* mower of the given ones that has attributes: if a slot held the old key the
\* new key was published to such a slot, and once the platform has set it no
\* slot holds the old key and exactly one holds the new key; otherwise the new
\* key was published to the lowest empty slot; and the helper does not return
\* but raises IndexError when all five slots hold other keys.
C20_OldKeyIsReplaced ==
    \A j \in 1..Len(replacement.result_list) :
        LET mower == replacement.result_list[j] IN
        (/\ replacement.pc = "done"
         /\ Has(mower, "key") /\ mower["key"] \in ReplacedMowers
         /\ Has(mower, "attrs")) =>
            LET attrs == mower["attrs"]
                olds == Holding(attrs, ClientKeyOld)
                empties == Slots \ DOMAIN attrs
                now == replacement.cloud[j] IN
            /\ olds # {} =>
                  /\ \E i \in PublishesFor(j) :
                        /\ replacement.sent[i].params.key \in olds
                        /\ replacement.sent[i].params.value = ClientKeyNew
                  /\ now # attrs =>
                        /\ Holding(now, ClientKeyOld) = {}
                        /\ Cardinality(Holding(now, ClientKeyNew)) = 1
            /\ (olds = {} /\ empties # {}) =>
                  \E i \in PublishesFor(j) :
                        /\ \A k \in empties :
                              replacement.sent[i].params.key <= k
                        /\ replacement.sent[i].params.key \in empties
                        /\ replacement.sent[i].params.value = ClientKeyNew
            /\ olds \cup empties # {}

HasCoordinates(response, d) ==
    {i \in HasState(response, d) :
        {"lat", "lng"} \subseteq
            DOMAIN ResultOf(response)[i]["alarms"]["robot_state"]}

\* C23: every published snapshot has, in every row, a location that is null or
\* a pair of latitude and longitude; when no entry for a device carries both
\* lat and lng the published location is null; and the published state is that
\* of the device's last robot_state, with or without coordinates.
C23_LocationIsNullOrPair ==
    [][Publishes =>
        /\ last_returned' = data'
        /\ \A d \in Registered :
            /\ \/ data'[d].location = None
               \/ \E lat \in {45}, lng \in {9} :
                     data'[d].location =
                        Some([latitude |-> lat, longitude |-> lng])
            /\ HasCoordinates(client_response, d) = {} =>
                  data'[d].location = None
            /\ HasCoordinates(client_response, d) # {} =>
                  data'[d].location # None
            /\ HasState(client_response, d) # {} =>
                  data'[d].state =
                      ResultOf(client_response)[
                          Last(HasState(client_response, d))
                      ]["alarms"]["robot_state"]["state"]]_vars
C23_Witness ==
    /\ rpc = "idle" /\ published = 1 /\ last_exception = "none"
    /\ client_response = [result |-> <<Keyed("A", RobotStateBody(5, {"lat"}))>>]
    /\ data["A"].location = None /\ data["A"].state = 5

(***************************************************************************)
(* The entity's claim.                                                     *)
(***************************************************************************)
\* what the update of the entity of imei must leave, by the snapshot it read
UpdatedAsClaimed(imei) ==
    IF imei \in DOMAIN data
    THEN /\ entities'[imei].state =
              IF data[imei].state < ROBOT_STATES_LEN
              THEN data[imei].state ELSE 0
         /\ entities'[imei].available = (entities'[imei].state > 0)
         /\ entities'[imei].location =
              IF data[imei].location = None
              THEN entities[imei].location ELSE data[imei].location
    ELSE entities'[imei] = entities[imei]

\* C24: every update of an entity leaves it with the snapshot state when that
\* is below the number of known states and with 0 otherwise, available exactly
\* when that state is above 0, and with the snapshot location or, when that is
\* null, the location it had; an entity whose device has no row keeps every
\* value; and no other entity changes.
C24_EntityFollowsSnapshot ==
    [][(refreshVars' = refreshVars /\ client_response' = client_response) =>
        \E imei \in EntityImeis :
            /\ UpdatedAsClaimed(imei)
            /\ \A other \in EntityImeis \ {imei} :
                  entities'[other] = entities[other]]_vars
C24_Witness ==
    /\ published = 2 /\ rpc = "idle"
    /\ data["A"].state = ROBOT_STATES_LEN /\ data["A"].location = None
    /\ entities["A"].state = 0 /\ ~entities["A"].available
    /\ entities["A"].location =
          Some([latitude |-> 45, longitude |-> 9])
    /\ mowers = <<"A">> /\ entities["B"] = NewEntity("B")

====
